---- MODULE Spec2Model ----
(***************************************************************************)
(* A model of onionize (src/lib/onionize.go): the Onionize lifecycle       *)
(* (slug generation, content-source resolution, control connection,        *)
(* authentication, key derivation, listener creation, the monitor          *)
(* goroutine, the one-shot result, the serve loop) and the request gate    *)
(* (CheckAndRewriteSlug, ResetHTTPConn and the mux handler).               *)
(*                                                                         *)
(* Strings are sequences of one-character strings, so that slicing,        *)
(* trimming and comparing are computed the way the Go code computes them.  *)
(* Request URLs are origin-form paths without a query.                     *)
(***************************************************************************)
EXTENDS Integers, Sequences, FiniteSets, TLC

(***************************************************************************)
(* Bounds of the model and constants of the program.                       *)
(***************************************************************************)
\* src/lib/onionize.go:30
slugLengthB32 == 16

\* the most leading separators a request URL carries
MaxLead == 2

\* the longest remainder that follows the slug in a request URL
MaxTail == 3

(***************************************************************************)
(* Strings.                                                                *)
(***************************************************************************)
Lower == << "a","b","c","d","e","f","g","h","i","j","k","l","m",
            "n","o","p","q","r","s","t","u","v","w","x","y","z" >>

Upper == << "A","B","C","D","E","F","G","H","I","J","K","L","M",
            "N","O","P","Q","R","S","T","U","V","W","X","Y","Z" >>

Digits == {"0","1","2","3","4","5","6","7","8","9"}

Range(s) == { s[i] : i \in DOMAIN s }

Letters == Range(Lower) \cup Range(Upper)

IndexIn(s, c) == CHOOSE i \in DOMAIN s : s[i] = c

ToUpperChar(c) == IF c \in Range(Lower) THEN Upper[IndexIn(Lower, c)] ELSE c

ToLowerChar(c) == IF c \in Range(Upper) THEN Lower[IndexIn(Upper, c)] ELSE c

ToLower(s) == [ i \in DOMAIN s |-> ToLowerChar(s[i]) ]

\* s[from:] with a 0-based Go index
Drop(s, n) == SubSeq(s, n + 1, Len(s))

\* s[:n]
Take(s, n) == SubSeq(s, 1, n)

HasPrefix(s, pre) == Len(s) >= Len(pre) /\ Take(s, Len(pre)) = pre

\* strings.TrimPrefix
TrimPrefix(s, pre) == IF HasPrefix(s, pre) THEN Drop(s, Len(pre)) ELSE s

\* strings.TrimLeft(s, "/"): every leading byte of the cutset goes
TrimLeft(s, c) ==
    LET lead == { i \in 0..Len(s) : \A j \in 1..i : s[j] = c }
        n == CHOOSE i \in lead : \A k \in lead : k <= i
    IN  Drop(s, n)

\* strings.Index for a one-byte needle, 0-based, -1 when absent
IndexByte(s, c) ==
    IF \E i \in DOMAIN s : s[i] = c
    THEN (CHOOSE i \in DOMAIN s : s[i] = c /\ \A j \in 1..(i - 1) : s[j] # c) - 1
    ELSE -1

LastIndexByte(s, c) ==
    IF \E i \in DOMAIN s : s[i] = c
    THEN (CHOOSE i \in DOMAIN s : s[i] = c /\ \A j \in (i + 1)..Len(s) : s[j] # c) - 1
    ELSE -1

\* all strings over chars of length at most n
RECURSIVE StringsUpTo(_, _)
StringsUpTo(chars, n) ==
    IF n = 0 THEN { << >> }
    ELSE LET shorter == StringsUpTo(chars, n - 1)
         IN  shorter \cup { Append(s, c) : s \in shorter, c \in chars }

(***************************************************************************)
(* onionutil.Base32Encode: RFC 4648 base32 with padding, lower-cased.      *)
(***************************************************************************)
B32Alphabet == Lower \o << "2","3","4","5","6","7" >>

Pow2(n) == CASE n = 0 -> 1 [] n = 1 -> 2 [] n = 2 -> 4 [] n = 3 -> 8
             [] n = 4 -> 16 [] n = 5 -> 32 [] n = 6 -> 64 [] n = 7 -> 128

\* bit j (0-based, most significant first) of the byte string, 0 past its end
BitAt(bytes, j) ==
    IF j \div 8 < Len(bytes)
    THEN (bytes[(j \div 8) + 1] \div Pow2(7 - (j % 8))) % 2
    ELSE 0

Quintet(bytes, k) ==
    16 * BitAt(bytes, 5 * k) + 8 * BitAt(bytes, 5 * k + 1) + 4 * BitAt(bytes, 5 * k + 2)
    + 2 * BitAt(bytes, 5 * k + 3) + BitAt(bytes, 5 * k + 4)

Base32Encode(bytes) ==
    LET nchars == (8 * Len(bytes) + 4) \div 5
        total == ((nchars + 7) \div 8) * 8
    IN  [ k \in 1..total |->
            IF k <= nchars THEN B32Alphabet[Quintet(bytes, k - 1) + 1] ELSE "=" ]

(***************************************************************************)
(* net/url as the gate uses it: URL values, Parse and String.              *)
(***************************************************************************)
Empty == << >>

URL(scheme, opaque, host, path, omitHost) ==
    [ isNil |-> FALSE, Scheme |-> scheme, Opaque |-> opaque, Host |-> host,
      Path |-> path, OmitHost |-> omitHost ]

\* the nil *URL that Parse returns with an error
NilURL ==
    [ isNil |-> TRUE, Scheme |-> Empty, Opaque |-> Empty, Host |-> Empty,
      Path |-> Empty, OmitHost |-> FALSE ]

\* the URL the HTTP server parsed from an origin-form request target
RequestURL(raw) == URL(Empty, Empty, Empty, raw, FALSE)

SchemeExtra == Digits \cup {"+", "-", "."}

\* getscheme: [err, scheme, rest]
GetScheme(raw) ==
    LET stops == { i \in DOMAIN raw :
                     ~ (raw[i] \in Letters \/ (raw[i] \in SchemeExtra /\ i > 1)) }
    IN  IF stops = {} THEN [ err |-> FALSE, scheme |-> Empty, rest |-> raw ]
        ELSE LET i == CHOOSE k \in stops : \A m \in stops : k <= m
             IN  IF raw[i] = ":"
                 THEN IF i = 1
                      THEN [ err |-> TRUE, scheme |-> Empty, rest |-> Empty ]
                      ELSE [ err |-> FALSE, scheme |-> Take(raw, i - 1),
                             rest |-> Drop(raw, i) ]
                 ELSE [ err |-> FALSE, scheme |-> Empty, rest |-> raw ]

\* validOptionalPort: "" or ":" followed by digits
ValidOptionalPort(port) ==
    \/ port = Empty
    \/ port[1] = ":" /\ \A i \in 2..Len(port) : port[i] \in Digits

\* parseHost, for hosts without brackets and escapes: the error it returns
HostError(host) ==
    LET i == LastIndexByte(host, ":")
    IN  i # -1 /\ ~ ValidOptionalPort(Drop(host, i))

\* url.Parse of a string without "?" and "#"
Parse(raw) ==
    LET g == GetScheme(raw)
        scheme == ToLower(g.scheme)
        rest == g.rest
        colon == IndexByte(rest, ":")
        slash == IndexByte(rest, "/")
    IN  IF g.err THEN NilURL
        ELSE IF ~ HasPrefix(rest, <<"/">>) /\ scheme # Empty
        THEN URL(scheme, rest, Empty, Empty, FALSE)
        ELSE IF /\ ~ HasPrefix(rest, <<"/">>)
                /\ colon >= 0
                /\ (slash < 0 \/ colon < slash)
        THEN NilURL
        ELSE IF /\ (scheme # Empty \/ ~ HasPrefix(rest, <<"/", "/", "/">>))
                /\ HasPrefix(rest, <<"/", "/">>)
        THEN LET after == Drop(rest, 2)
                 cut == IndexByte(after, "/")
                 authority == IF cut < 0 THEN after ELSE Take(after, cut)
                 path == IF cut < 0 THEN Empty ELSE Drop(after, cut)
             IN  IF HostError(authority) THEN NilURL
                 ELSE URL(scheme, Empty, authority, path, FALSE)
        ELSE URL(scheme, Empty, Empty, rest,
                 scheme # Empty /\ HasPrefix(rest, <<"/">>))

\* (*URL).String of a non-nil URL without user, query and fragment, whose
\* path needs no escaping
URLString(u) ==
    LET s1 == IF u.Scheme # Empty THEN u.Scheme \o <<":">> ELSE Empty
        auth == IF u.Scheme # Empty \/ u.Host # Empty
                THEN IF u.OmitHost /\ u.Host = Empty
                     THEN Empty
                     ELSE (IF u.Host # Empty \/ u.Path # Empty
                           THEN <<"/", "/">> ELSE Empty) \o u.Host
                ELSE Empty
        sep == IF u.Path # Empty /\ u.Path[1] # "/" /\ u.Host # Empty
               THEN <<"/">> ELSE Empty
        s2 == s1 \o auth \o sep
        colon == IndexByte(u.Path, ":")
        dot == IF /\ s2 = Empty
                  /\ colon > -1
                  /\ IndexByte(Take(u.Path, colon), "/") = -1
               THEN <<".", "/">> ELSE Empty
    IN  IF u.Opaque # Empty THEN s1 \o u.Opaque
        ELSE s2 \o dot \o u.Path

(***************************************************************************)
(* Paths: path.Clean for paths without "." and ".." elements, and the      *)
(* cleanPath of net/http's ServeMux.                                       *)
(***************************************************************************)
\* drop every "/" that follows a "/"
Squeeze(s) ==
    LET keep == { i \in DOMAIN s : ~ (s[i] = "/" /\ i > 1 /\ s[i - 1] = "/") }
        RECURSIVE Pick(_)
        Pick(i) == IF i > Len(s) THEN Empty
                   ELSE IF i \in keep THEN <<s[i]>> \o Pick(i + 1)
                   ELSE Pick(i + 1)
    IN  Pick(1)

\* path.Clean
Clean(s) ==
    LET q == Squeeze(s)
    IN  IF q = Empty THEN <<".">>
        ELSE IF Len(q) > 1 /\ q[Len(q)] = "/" THEN Take(q, Len(q) - 1)
        ELSE q

\* net/http cleanPath: Clean, but a trailing "/" is kept
CleanPath(p) ==
    IF p = Empty THEN <<"/">>
    ELSE LET rooted == IF p[1] # "/" THEN <<"/">> \o p ELSE p
             np == Clean(rooted)
         IN  IF rooted[Len(rooted)] = "/" /\ np # <<"/">> THEN Append(np, "/") ELSE np

(***************************************************************************)
(* The machine's file system: a directory /d holding the files a, aa and   *)
(* "a b", and a zip archive /z holding the entries a and aa.  The process  *)
(* runs in /d.                                                             *)
(***************************************************************************)
Cwd == <<"/", "d">>

WorldDirs == { <<"/">>, <<"/", "d">> }

WorldFiles ==
    { <<"/", "d", "/", "a">>, <<"/", "d", "/", "a", "a">>,
      <<"/", "d", "/", "a", " ", "b">>, <<"/", "z">> }

WorldZips == { <<"/", "z">> }

ZipDirs == { <<"/">> }

ZipFiles == { <<"/", "a">>, <<"/", "a", "a">> }

\* the paths a caller passes: a directory, a regular file (relative), a
\* regular file with a space in its name, an archive, a path that does not
\* exist
Paths ==
    { <<"/", "d">>, <<"a">>, <<"/", "d", "/", "a", " ", "b">>, <<"/", "z">>,
      <<"/", "n">> }

IsAbs(path) == HasPrefix(path, <<"/">>)

\* where the operating system finds a path
Resolve(path) == IF IsAbs(path) THEN Clean(path) ELSE Clean(Cwd \o <<"/">> \o path)

\* os.Stat: "dir", "file" or "none" (an error)
Stat(path) ==
    IF Resolve(path) \in WorldDirs THEN "dir"
    ELSE IF Resolve(path) \in WorldFiles THEN "file"
    ELSE "none"

\* zip.OpenReader succeeds
ZipOpens(path) == Resolve(path) \in WorldZips

\* filepath.Split: [dir, file], cut after the last separator
Split(path) ==
    LET i == LastIndexByte(path, "/")
    IN  [ dir |-> Take(path, i + 1), file |-> Drop(path, i + 1) ]

(***************************************************************************)
(* vfs.FileSystem values and the lookup http.FileServer does in them.      *)
(***************************************************************************)
NoFS == [ kind |-> "none", root |-> Empty, m |-> {} ]

\* vfs.OS(root)
OSFS(root) == [ kind |-> "os", root |-> root, m |-> {} ]

\* zipfs.New(rc, "onionize")
ZipFS(path) == [ kind |-> "zip", root |-> path, m |-> {} ]

\* pickfs.New(vfs.OS(dir), m): m is the set of <<name, target>> pairs
PickFS(dir, m) == [ kind |-> "pick", root |-> dir, m |-> m ]

\* what the file server finds for a URL path: "file", "dir" or "notfound"
Lookup(f, upath) ==
    LET rooted == IF HasPrefix(upath, <<"/">>) THEN upath ELSE <<"/">> \o upath
        name == Clean(rooted)
    IN  CASE f.kind = "os" ->
               LET target == Clean(f.root \o name)
               IN  IF target \in WorldDirs THEN "dir"
                   ELSE IF target \in WorldFiles THEN "file"
                   ELSE "notfound"
          [] f.kind = "zip" ->
               IF name \in ZipDirs THEN "dir"
               ELSE IF name \in ZipFiles THEN "file"
               ELSE "notfound"
          [] f.kind = "pick" ->
               IF name = <<"/">> THEN "dir"
               ELSE IF \E pair \in f.m :
                         /\ pair[1] = Drop(name, 1)
                         /\ Clean(f.root \o <<"/">> \o pair[2]) \in WorldFiles
               THEN "file"
               ELSE "notfound"
          [] OTHER -> "notfound"

(***************************************************************************)
(* The gate: CheckAndRewriteSlug and ResetHTTPConn.                        *)
(***************************************************************************)
\* a comparison that leaves its loop at the first byte that differs
EarlyExitCompare(x, y) ==
    LET RECURSIVE Go(_, _)
        Go(i, n) == IF i > Len(x) THEN [ result |-> 1, steps |-> n ]
                    ELSE IF x[i] # y[i] THEN [ result |-> 0, steps |-> n + 1 ]
                    ELSE Go(i + 1, n + 1)
    IN  IF Len(x) # Len(y) THEN [ result |-> 0, steps |-> 0 ] ELSE Go(1, 0)

\* subtle.ConstantTimeCompare: result is 1 when the slices are equal and 0
\* otherwise; steps counts the rounds of its loop, which ORs the difference
\* of every pair of bytes into v and leaves only at the end of the slices
ConstantTimeCompare(x, y) ==
    LET RECURSIVE Go(_, _, _)
        Go(i, v, n) == IF i > Len(x)
                       THEN [ result |-> IF v THEN 0 ELSE 1, steps |-> n ]
                       ELSE Go(i + 1, v \/ x[i] # y[i], n + 1)
    IN  IF Len(x) # Len(y) THEN [ result |-> 0, steps |-> 0 ] ELSE Go(1, FALSE, 0)

\* CheckAndRewriteSlug without the early return for the empty slug
CheckAndRewriteSlugNoEarlyReturn(reqURL, slugArg) ==
    LET trimmed == TrimLeft(URLString(reqURL), "/")
        cmp == ConstantTimeCompare(slugArg, Take(trimmed, Len(slugArg)))
    IN  IF Len(trimmed) < Len(slugArg)
        THEN [ err |-> "URL is too short to have a slug in it", url |-> reqURL,
               compared |-> FALSE, steps |-> 0 ]
        ELSE IF 1 # cmp.result
        THEN [ err |-> "Wrong slug", url |-> reqURL, compared |-> TRUE,
               steps |-> cmp.steps ]
        ELSE [ err |-> "", url |-> Parse(TrimPrefix(trimmed, slugArg)),
               compared |-> TRUE, steps |-> cmp.steps ]

\* CheckAndRewriteSlug(req, slug): the error it returns ("" for nil), the
\* request's URL afterwards, whether the comparison ran and the rounds of
\* its loop
CheckAndRewriteSlug(reqURL, slugArg) ==
    LET trimmed == TrimLeft(URLString(reqURL), "/")
        cmp == ConstantTimeCompare(slugArg, Take(trimmed, Len(slugArg)))
    IN  IF slugArg = Empty
        THEN [ err |-> "", url |-> reqURL, compared |-> FALSE, steps |-> 0 ]
        ELSE IF Len(trimmed) < Len(slugArg)
        THEN [ err |-> "URL is too short to have a slug in it", url |-> reqURL,
               compared |-> FALSE, steps |-> 0 ]
        ELSE IF 1 # cmp.result
        THEN [ err |-> "Wrong slug", url |-> reqURL, compared |-> TRUE,
               steps |-> cmp.steps ]
        ELSE [ err |-> "", url |-> Parse(TrimPrefix(trimmed, slugArg)),
               compared |-> TRUE, steps |-> cmp.steps ]

\* what a connection lets the handler do: hijack it, refuse (the writer is no
\* http.Hijacker), or fail in Hijack
HijackKinds == { "ok", "unsupported", "fails" }

\* ResetHTTPConn(w): the error it returns and whether the connection was closed
ResetHTTPConn(hj) ==
    CASE hj = "unsupported" ->
           [ err |-> "This webserver doesn't support hijacking", closed |-> FALSE ]
      [] hj = "fails" -> [ err |-> "hijack failed", closed |-> FALSE ]
      [] OTHER -> [ err |-> "", closed |-> TRUE ]

(***************************************************************************)
(* The mux and its handler (the function registered for "/").              *)
(***************************************************************************)
Methods == { "GET", "CONNECT" }

\* no request is being handled
NoResp ==
    [ method |-> "", url |-> Empty, via |-> "none", compared |-> FALSE, steps |-> 0,
      err |-> "",
      hijack |-> "", reset |-> FALSE, panicked |-> FALSE, redirected |-> FALSE, location |-> Empty,
      forwarded |-> FALSE, fwdNil |-> FALSE, fwdURL |-> Empty, fwdPath |-> Empty,
      served |-> "none" ]

\* "/" + slug + "/"
RedirectTarget(slugArg) == <<"/">> \o slugArg \o <<"/">>

\* the handler func(w, req) for one request: what it did with it
Handler(slugArg, f, method, raw, hj) ==
    LET chk == CheckAndRewriteSlug(RequestURL(raw), slugArg)
        seen == [ NoResp EXCEPT !.method = method, !.url = raw, !.via = "handler",
                                !.compared = chk.compared, !.steps = chk.steps,
                                !.err = chk.err ]
    IN  IF chk.err # ""
        THEN [ seen EXCEPT !.hijack = hj, !.reset = ResetHTTPConn(hj).closed ]
        ELSE IF chk.url.isNil
        THEN \* req.URL.String() on the nil URL: the handler panics
             [ seen EXCEPT !.panicked = TRUE, !.fwdNil = TRUE ]
        ELSE LET str == URLString(chk.url)
             IN  [ seen EXCEPT
                     !.redirected = (str = Empty),
                     !.location = IF str = Empty THEN RedirectTarget(slugArg) ELSE Empty,
                     !.forwarded = TRUE,
                     !.fwdURL = str,
                     !.fwdPath = chk.url.Path,
                     !.served = Lookup(f, chk.url.Path) ]

\* http.ServeMux with the one pattern "/": a request whose path is not clean
\* is answered by the mux itself with a 301 to the clean path, except for
\* CONNECT; every other request reaches the handler
MuxServe(slugArg, f, method, raw, hj) ==
    IF method # "CONNECT" /\ CleanPath(raw) # raw
    THEN [ NoResp EXCEPT !.method = method, !.url = raw, !.via = "mux301",
                         !.location = CleanPath(raw) ]
    ELSE Handler(slugArg, f, method, raw, hj)

(***************************************************************************)
(* The requests a client sends: one to MaxLead leading separators, then    *)
(* the slug followed by a remainder, a prefix of the slug, the slug with   *)
(* one byte changed (another byte, or the same letter in upper case), or   *)
(* a short path without the slug.                                          *)
(***************************************************************************)
TailChars == { "/", "a", ":" }

Tails == StringsUpTo(TailChars, MaxTail)

Leads == { [ i \in 1..n |-> "/" ] : n \in 1..MaxLead }

OtherChar(c) == IF c = "a" THEN "b" ELSE "a"

Mutations(s) ==
    UNION { { [ s EXCEPT ![i] = c ] : c \in { ToUpperChar(s[i]), OtherChar(s[i]) } } :
              i \in DOMAIN s }
    \ { s }

Bodies(slugArg) ==
    IF slugArg = Empty THEN Tails
    ELSE { slugArg \o t : t \in Tails }
         \cup { Take(slugArg, k) : k \in 0..(Len(slugArg) - 1) }
         \cup Mutations(slugArg)
         \cup Tails

RequestURLs(slugArg) == { lead \o body : lead \in Leads, body \in Bodies(slugArg) }

(***************************************************************************)
(* Onionize: its inputs and the values it builds.                          *)
(***************************************************************************)
\* the bytes crypto/rand may deliver: (slugLengthB32*5)/8+1 of them
RandReads ==
    { [ i \in 1..((slugLengthB32 * 5) \div 8 + 1) |-> 255 ],
      << 0, 68, 50, 20, 199, 0, 68, 50, 20, 199, 0 >> }

Passphrases == { Empty, <<"p", "w">> }

ParameterSets ==
    [ Path : Paths, Zip : BOOLEAN, Slug : BOOLEAN, Passphrase : Passphrases ]

\* a nil private key
NoKey == [ derived |-> FALSE, secret |-> Empty, label |-> "" ]

\* onionutil.GenerateOnionKey over onionutil.KeystreamReader(secret, label):
\* the key is a function of the keystream's two inputs
DerivedKey(secret, label) == [ derived |-> TRUE, secret |-> secret, label |-> label ]

\* the hosts of the services tor makes up a key for
RandHosts == { <<"r", "1">>, <<"r", "2">> }

\* the host of the service a supplied key stands for
OnionOf(key) == <<"k">> \o key.secret

\* the port of NewListener(aocfg, 80)
OnionPort == 80

\* the suffix ":80"
PortSuffix == <<":", "8", "0">>

TrimSuffix(s, suf) ==
    IF Len(s) >= Len(suf) /\ SubSeq(s, Len(s) - Len(suf) + 1, Len(s)) = suf
    THEN Take(s, Len(s) - Len(suf))
    ELSE s

NoConfig == [ DiscardPK |-> FALSE, AwaitForUpload |-> FALSE, PrivateKey |-> NoKey ]

NoListener == [ state |-> "none", cfg |-> NoConfig, port |-> 0, addr |-> Empty ]

\* neturl.QueryEscape, for the bytes file names are made of here
QueryEscape(s) ==
    LET Esc(c) == CASE c \in Letters \cup Digits \cup {"-", "_", ".", "~"} -> <<c>>
                    [] c = " " -> <<"+">>
                    [] c = ":" -> <<"%", "3", "A">>
                    [] c = "+" -> <<"%", "2", "B">>
                    [] c = "%" -> <<"%", "2", "5">>
        RECURSIVE Go(_)
        Go(i) == IF i > Len(s) THEN Empty ELSE Esc(s[i]) \o Go(i + 1)
    IN  Go(1)

\* strings.Replace(s, "+", "%20", -1)
ReplacePlus(s) ==
    LET RECURSIVE Go(_)
        Go(i) == IF i > Len(s) THEN Empty
                 ELSE (IF s[i] = "+" THEN <<"%", "2", "0">> ELSE <<s[i]>>) \o Go(i + 1)
    IN  Go(1)

ResultLink(u, e) == [ URL |-> u, Error |-> e ]

HTTPPrefix == <<"h", "t", "t", "p", ":", "/", "/">>

(***************************************************************************)
(* The state.                                                              *)
(***************************************************************************)
VARIABLES
    p,          \* the Parameters of the invocation
    pc,         \* where the main flow of Onionize stands
    slug,       \* var slug
    url,        \* var url: the path of the published link
    fs,         \* var fs: the content source
    conn,       \* the control connection c: "none", "open", "closed"
    aocfg,      \* the NewOnionConfig
    listener,   \* onionListener and the request that made it
    monitor,    \* the goroutine tracking tor: "off", "wait", "event", "error", "dead"
    pending,    \* the ResultLink the main flow is sending, if it is
    linkCh,     \* the ResultLinks the channel has carried, in order
    calls,      \* the control operations invoked so far, in order
    fatal,      \* the message of the log.Fatalf that ended the process, or ""
    resp        \* what became of the request being handled, or NoResp

vars == << p, pc, slug, url, fs, conn, aocfg, listener, monitor, pending, linkCh,
           calls, fatal, resp >>

Init ==
    /\ p \in ParameterSets
    /\ pc = "slug"
    /\ slug = Empty
    /\ url = Empty
    /\ fs = NoFS
    /\ conn = "none"
    /\ aocfg = NoConfig
    /\ listener = NoListener
    /\ monitor = "off"
    /\ pending = << >>
    /\ linkCh = << >>
    /\ calls = << >>
    /\ fatal = ""
    /\ resp = NoResp

\* the process has not ended and Onionize has not returned
Running == pc \notin { "returned", "exited" }

\* the step that follows each step of the main flow
StepAfter(at) ==
    CASE at = "slug" -> "source" [] at = "source" -> "dial" [] at = "dial" -> "auth"
      [] at = "auth" -> "key" [] at = "key" -> "listen" [] at = "listen" -> "go"

\* the error is sent, but the return after it is missing
FailWithNoReturn(msg) ==
    /\ pending' = << ResultLink(Empty, msg) >>
    /\ pc' = StepAfter(pc)

\* linkCh <- ResultLink{Error: ...}: the main flow starts sending an error
\* and will return once it is taken
FailWith(msg) ==
    /\ pending' = << ResultLink(Empty, msg) >>
    /\ pc' = "sendErr"

(***************************************************************************)
(* Lines 80-89: the slug.                                                  *)
(***************************************************************************)
\* two bytes too few are drawn: the encoding is shorter than the slug and
\* its padding gets into it
GenerateSlugTooFewBytes ==
    /\ pc = "slug"
    /\ IF p.Slug
       THEN \E slugBin \in RandReads :
              /\ slug' = Take(Base32Encode(Take(slugBin, Len(slugBin) - 2)), slugLengthB32)
              /\ url' = url \o slug' \o <<"/">>
              /\ pc' = "source"
              /\ UNCHANGED pending
       ELSE /\ pc' = "source"
            /\ UNCHANGED << slug, url, pending >>
    /\ UNCHANGED << p, fs, conn, aocfg, listener, monitor, linkCh, calls, fatal, resp >>

GenerateSlug ==
    /\ pc = "slug"
    /\ IF p.Slug
       THEN \E ok \in BOOLEAN, slugBin \in RandReads :
              IF ok
              THEN /\ slug' = Take(Base32Encode(slugBin), slugLengthB32)
                   /\ url' = url \o Take(Base32Encode(slugBin), slugLengthB32) \o <<"/">>
                   /\ pc' = "source"
                   /\ UNCHANGED pending
              ELSE /\ FailWith("Unable to generate slug")
                   /\ UNCHANGED << slug, url >>
       ELSE /\ pc' = "source"
            /\ UNCHANGED << slug, url, pending >>
    /\ UNCHANGED << p, fs, conn, aocfg, listener, monitor, linkCh, calls, fatal, resp >>

(***************************************************************************)
(* Lines 91-123: the content source.                                       *)
(***************************************************************************)
\* the single file served alone: the directory of abspath behind a pickfs
\* that knows the file's name only
SingleFileFSWholeDir(abspath) == OSFS(Split(abspath).dir)

SingleFileFS(abspath) ==
    PickFS(Split(abspath).dir, { << Split(abspath).file, Split(abspath).file >> })

\* the file name is query-escaped and the "+" of a space is left in it
EscapedFilenamePlus(abspath) == QueryEscape(Split(abspath).file)

\* the escaped file name the link ends with
EscapedFilename(abspath) == ReplacePlus(QueryEscape(Split(abspath).file))

\* filepath.Abs needs the working directory, and can fail, for a relative
\* path only
AbsOutcomes(params) ==
    IF ~ params.Zip /\ Stat(params.Path) = "file" /\ ~ IsAbs(params.Path)
    THEN BOOLEAN ELSE { TRUE }

\* what lines 91-123 make of the path: the error reported ("" for none),
\* the file system and what is added to url
ResolveOutcome(params, absOk) ==
    IF params.Zip
    THEN IF ZipOpens(params.Path)
         THEN [ err |-> "", fs |-> ZipFS(params.Path), name |-> Empty ]
         ELSE [ err |-> "Unable to open zip archive", fs |-> NoFS, name |-> Empty ]
    ELSE IF Stat(params.Path) = "none"
         THEN [ err |-> "Unable to open path", fs |-> NoFS, name |-> Empty ]
         ELSE IF Stat(params.Path) = "dir"
         THEN [ err |-> "", fs |-> OSFS(params.Path), name |-> Empty ]
         ELSE IF ~ absOk
         THEN [ err |-> "Unable to get absolute path to file", fs |-> NoFS,
                name |-> Empty ]
         ELSE [ err |-> "", fs |-> SingleFileFS(Resolve(params.Path)),
                name |-> EscapedFilename(Resolve(params.Path)) ]

\* the source is resolved only after the control connection is dialled
ResolveSourceConnectsFirst ==
    /\ pc = "source"
    /\ calls' = Append(calls, "DialURL")
    /\ conn' = "open"
    /\ \E absOk \in AbsOutcomes(p) :
         LET r == ResolveOutcome(p, absOk)
         IN  IF r.err # ""
             THEN /\ FailWith(r.err)
                  /\ UNCHANGED << fs, url >>
             ELSE /\ fs' = r.fs
                  /\ url' = url \o r.name
                  /\ pc' = "auth"
                  /\ UNCHANGED pending
    /\ UNCHANGED << p, slug, aocfg, listener, monitor, linkCh, fatal, resp >>

ResolveSource ==
    /\ pc = "source"
    /\ \E absOk \in AbsOutcomes(p) :
         LET r == ResolveOutcome(p, absOk)
         IN  IF r.err # ""
             THEN /\ FailWith(r.err)
                  /\ UNCHANGED << fs, url >>
             ELSE /\ fs' = r.fs
                  /\ url' = url \o r.name
                  /\ pc' = "dial"
                  /\ UNCHANGED pending
    /\ UNCHANGED << p, slug, conn, aocfg, listener, monitor, linkCh, calls, fatal, resp >>

(***************************************************************************)
(* Lines 153-167: the control connection.                                  *)
(***************************************************************************)
Dial ==
    /\ pc = "dial"
    /\ calls' = Append(calls, "DialURL")
    /\ \E ok \in BOOLEAN :
         IF ok
         THEN /\ conn' = "open"
              /\ pc' = "auth"
              /\ UNCHANGED pending
         ELSE /\ FailWith("Failed to connect to control socket")
              /\ UNCHANGED conn
    /\ UNCHANGED << p, slug, url, fs, aocfg, listener, monitor, linkCh, fatal, resp >>

Authenticate ==
    /\ pc = "auth"
    /\ calls' = Append(calls, "Authenticate")
    /\ \E ok \in BOOLEAN :
         IF ok
         THEN /\ pc' = "key"
              /\ UNCHANGED pending
         ELSE FailWith("Authentication failed")
    /\ UNCHANGED << p, slug, url, fs, conn, aocfg, listener, monitor, linkCh, fatal, resp >>

(***************************************************************************)
(* Lines 169-185: the listener's configuration and the key.                *)
(***************************************************************************)
KeygenLabel == "onionize-keygen"

\* the key depends on the path served as well
KeyMaterialSalted(params) == DerivedKey(params.Passphrase \o params.Path, KeygenLabel)

\* privOnionKey: GenerateOnionKey(KeystreamReader(passphrase, "onionize-keygen"))
KeyMaterial(params) == DerivedKey(params.Passphrase, KeygenLabel)

\* the passphrase is not looked at: tor always makes up the key
DeriveKeyIgnoresPassphrase ==
    /\ pc = "key"
    /\ aocfg' = [ DiscardPK |-> TRUE, AwaitForUpload |-> TRUE, PrivateKey |-> NoKey ]
    /\ pc' = "listen"
    /\ UNCHANGED << p, slug, url, fs, conn, listener, monitor, pending, linkCh, calls,
                    fatal, resp >>

DeriveKey ==
    /\ pc = "key"
    /\ IF p.Passphrase # Empty
       THEN \E outcome \in { "ok", "keystream", "keygen" } :
              CASE outcome = "keystream" ->
                     /\ FailWith("Unable to create keystream")
                     /\ aocfg' = [ DiscardPK |-> TRUE, AwaitForUpload |-> TRUE,
                                   PrivateKey |-> NoKey ]
                [] outcome = "keygen" ->
                     /\ FailWith("Unable to generate onion key")
                     /\ aocfg' = [ DiscardPK |-> TRUE, AwaitForUpload |-> TRUE,
                                   PrivateKey |-> NoKey ]
                [] OTHER ->
                     /\ aocfg' = [ DiscardPK |-> TRUE, AwaitForUpload |-> TRUE,
                                   PrivateKey |-> KeyMaterial(p) ]
                     /\ pc' = "listen"
                     /\ UNCHANGED pending
       ELSE /\ aocfg' = [ DiscardPK |-> TRUE, AwaitForUpload |-> TRUE,
                          PrivateKey |-> NoKey ]
            /\ pc' = "listen"
            /\ UNCHANGED pending
    /\ UNCHANGED << p, slug, url, fs, conn, listener, monitor, linkCh, calls, fatal, resp >>

(***************************************************************************)
(* Lines 186-191: the listener.                                            *)
(***************************************************************************)
NewListener ==
    /\ pc = "listen"
    /\ calls' = Append(calls, "NewListener")
    /\ \E ok \in BOOLEAN :
         IF ok
         THEN /\ \E host \in (IF aocfg.PrivateKey.derived
                              THEN { OnionOf(aocfg.PrivateKey) } ELSE RandHosts) :
                   listener' = [ state |-> "open", cfg |-> aocfg, port |-> OnionPort,
                                 addr |-> host \o PortSuffix ]
              /\ pc' = "go"
              /\ UNCHANGED pending
         ELSE /\ FailWith("Error occured while creating an onion service")
              /\ UNCHANGED listener
    /\ UNCHANGED << p, slug, url, fs, conn, aocfg, monitor, linkCh, fatal, resp >>

(***************************************************************************)
(* Lines 193-200: the goroutine that tracks tor.                           *)
(***************************************************************************)
\* the goroutine is started before the listener is asked for
StartMonitorBeforeListener ==
    /\ pc = "listen"
    /\ monitor = "off"
    /\ monitor' = "wait"
    /\ UNCHANGED << p, pc, slug, url, fs, conn, aocfg, listener, pending, linkCh, calls,
                    fatal, resp >>

\* go func() { ... }()
StartMonitor ==
    /\ pc = "go"
    /\ monitor' = "wait"
    /\ pc' = "addr"
    /\ UNCHANGED << p, slug, url, fs, conn, aocfg, listener, pending, linkCh, calls,
                    fatal, resp >>

\* _, err := c.NextEvent()
MonitorNextEvent ==
    /\ Running
    /\ monitor = "wait"
    /\ calls' = IF "NextEvent" \in Range(calls) THEN calls ELSE Append(calls, "NextEvent")
    /\ \E failed \in BOOLEAN : monitor' = IF failed THEN "error" ELSE "event"
    /\ UNCHANGED << p, pc, slug, url, fs, conn, aocfg, listener, pending, linkCh,
                    fatal, resp >>

\* log.Fatalf ends the process at once: no deferred call runs, every
\* request in progress is gone
Fatalf(msg) ==
    /\ fatal' = msg
    /\ pc' = "exited"
    /\ monitor' = IF monitor = "off" THEN "off" ELSE "dead"
    /\ resp' = NoResp

\* the error of NextEvent is passed over and the loop goes on
MonitorCheckKeepsGoing ==
    /\ Running
    /\ monitor \in { "event", "error" }
    /\ monitor' = "wait"
    /\ UNCHANGED << p, pc, slug, url, fs, conn, aocfg, listener, pending, linkCh, calls,
                    fatal, resp >>

\* if err != nil { log.Fatalf(...) }, else around the loop
MonitorCheck ==
    /\ Running
    /\ monitor \in { "event", "error" }
    /\ IF monitor = "error"
       THEN Fatalf("Lost connection to tor")
       ELSE /\ monitor' = "wait"
            /\ UNCHANGED << pc, fatal, resp >>
    /\ UNCHANGED << p, slug, url, fs, conn, aocfg, listener, pending, linkCh, calls >>

(***************************************************************************)
(* Lines 201-204: the link, and the sends on linkCh.                       *)
(***************************************************************************)
PublishedLink ==
    HTTPPrefix \o TrimSuffix(listener.addr, PortSuffix) \o <<"/">> \o url

\* the serve loop is entered before the address is taken
PublishAddressServesFirst ==
    /\ pc = "addr"
    /\ pending' = << ResultLink(PublishedLink, "") >>
    /\ pc' = "serve"
    /\ UNCHANGED << p, slug, url, fs, conn, aocfg, listener, monitor, linkCh, calls,
                    fatal, resp >>

\* the main flow reaches linkCh <- ResultLink{URL: ...}
PublishAddress ==
    /\ pc = "addr"
    /\ pending' = << ResultLink(PublishedLink, "") >>
    /\ pc' = "sendOk"
    /\ UNCHANGED << p, slug, url, fs, conn, aocfg, listener, monitor, linkCh, calls,
                    fatal, resp >>

\* the consumer takes the address; the main flow goes on to server.Serve
SendAddress ==
    /\ pc = "sendOk"
    /\ linkCh' = linkCh \o pending
    /\ pending' = << >>
    /\ pc' = "serve"
    /\ UNCHANGED << p, slug, url, fs, conn, aocfg, listener, monitor, calls, fatal, resp >>

\* the consumer takes the error; Onionize returns and its deferred calls run
\* (onionListener.Close, c.Close)
SendError ==
    /\ pc = "sendErr"
    /\ linkCh' = linkCh \o pending
    /\ pending' = << >>
    /\ pc' = "returned"
    /\ conn' = IF conn = "open" THEN "closed" ELSE conn
    /\ listener' = IF listener.state = "open"
                   THEN [ listener EXCEPT !.state = "closed" ] ELSE listener
    /\ UNCHANGED << p, slug, url, fs, aocfg, monitor, calls, fatal, resp >>

(***************************************************************************)
(* Lines 125-150 and 206-209: serving.                                     *)
(***************************************************************************)
\* server.Serve hands a request to the mux
ServeRequest ==
    /\ pc = "serve"
    /\ resp = NoResp
    /\ \E method \in Methods, raw \in RequestURLs(slug), hj \in HijackKinds :
         resp' = MuxServe(slug, fs, method, raw, hj)
    /\ UNCHANGED << p, pc, slug, url, fs, conn, aocfg, listener, monitor, pending,
                    linkCh, calls, fatal >>

\* the request is over
FinishRequest ==
    /\ pc = "serve"
    /\ resp # NoResp
    /\ resp' = NoResp
    /\ UNCHANGED << p, pc, slug, url, fs, conn, aocfg, listener, monitor, pending,
                    linkCh, calls, fatal >>

\* the failure of the serve loop is reported on linkCh as well
ServeFailsReports ==
    /\ pc = "serve"
    /\ linkCh' = Append(linkCh, ResultLink(Empty, "Cannot serve HTTP"))
    /\ Fatalf("Cannot serve HTTP")
    /\ UNCHANGED << p, slug, url, fs, conn, aocfg, listener, pending, calls >>

\* server.Serve returns, always with an error: log.Fatalf("Cannot serve HTTP")
ServeFails ==
    /\ pc = "serve"
    /\ Fatalf("Cannot serve HTTP")
    /\ UNCHANGED << p, slug, url, fs, conn, aocfg, listener, pending, linkCh, calls >>

Next ==
    \/ GenerateSlug
    \/ ResolveSource
    \/ Dial
    \/ Authenticate
    \/ DeriveKey
    \/ NewListener
    \/ StartMonitor
    \/ MonitorNextEvent
    \/ MonitorCheck
    \/ PublishAddress
    \/ SendAddress
    \/ SendError
    \/ ServeRequest
    \/ FinishRequest
    \/ ServeFails

Spec == Init /\ [][Next]_vars

\* the monitor goroutine is runnable whenever NextEvent has returned, and the
\* Go scheduler runs every runnable goroutine
FairSpec == Spec /\ WF_vars(MonitorCheck)

(***************************************************************************)
(* What the claims speak of.                                               *)
(***************************************************************************)
\* the gate handler ran on the request in resp
GateRan == resp.via = "handler"

\* the path of the request in resp after its leading separator
PathAfterSeparator == Drop(resp.url, 1)

\* x begins with the exact bytes of the slug
BeginsWithSlug(x) == Len(x) >= Len(slug) /\ Take(x, Len(slug)) = slug

\* the results handed over so far, and the one being handed over
Emitted == linkCh \o pending

AddressResults(rs) == { i \in DOMAIN rs : rs[i].Error = "" }

\* the names the content source shows
Names == { <<"a">>, <<"a", "a">>, <<"a", " ", "b">>, <<"z">>, <<"d">> }

Exposed(f) == { n \in Names : Lookup(f, <<"/">> \o n) # "notfound" }

(***************************************************************************)
(* C1: with slug mode enabled, a request whose path after the leading      *)
(* separator is shorter than the slug or differs from it within its first  *)
(* len(slug) bytes never reaches the content handler: the check returns    *)
(* an error, the connection is reset when it can be hijacked, and nothing  *)
(* is forwarded or written.                                                *)
(***************************************************************************)
C1_MismatchNeverForwarded ==
    (slug # Empty /\ GateRan /\ ~ BeginsWithSlug(PathAfterSeparator))
        => /\ ~ resp.forwarded
           /\ resp.err # ""
           /\ (resp.hijack = "ok" => resp.reset)
           /\ ~ resp.redirected
           /\ resp.served = "none"

(***************************************************************************)
(* C2: with slug mode enabled, a request whose path starts with the exact  *)
(* slug is forwarded to the content handler with a valid URL that is       *)
(* exactly the remainder of the original URL after the slug.               *)
(***************************************************************************)
C2_RemainderForwardedUnchanged ==
    (slug # Empty /\ GateRan /\ BeginsWithSlug(PathAfterSeparator))
        => /\ resp.forwarded
           /\ ~ resp.fwdNil
           /\ resp.fwdURL = Drop(PathAfterSeparator, Len(slug))

(***************************************************************************)
(* C3: with slug mode enabled, a request for the bare root path "/" is     *)
(* answered with a redirect to "/" + slug + "/"; it is neither reset nor   *)
(* rejected.                                                               *)
(***************************************************************************)
C3_RootRedirects ==
    (slug # Empty /\ GateRan /\ resp.url = <<"/">>)
        => /\ resp.redirected
           /\ resp.location = RedirectTarget(slug)
           /\ ~ resp.reset
           /\ resp.err = ""

(***************************************************************************)
(* C4: with slug mode disabled the gate is the identity: every request it  *)
(* sees is forwarded with its URL unmodified, nothing is compared, nothing *)
(* is reset, nothing is redirected.                                        *)
(***************************************************************************)
C4_DisabledGateIsIdentity ==
    (~ p.Slug /\ GateRan)
        => /\ slug = Empty
           /\ resp.forwarded
           /\ resp.fwdURL = resp.url
           /\ resp.fwdPath = resp.url
           /\ ~ resp.compared
           /\ resp.err = ""
           /\ ~ resp.reset
           /\ ~ resp.panicked
           /\ ~ resp.redirected

C4_Witness ==
    /\ ~ p.Slug
    /\ GateRan
    /\ resp.forwarded
    /\ resp.url = <<"/">>

(***************************************************************************)
(* C5: at most one ResultLink is ever sent on the result channel: a setup  *)
(* failure sends one error result and Onionize returns, success sends one  *)
(* address result, and no second result follows the address when serving   *)
(* or the control connection fails later.                                  *)
(***************************************************************************)
C5_AtMostOneResult ==
    /\ Len(Emitted) <= 1
    /\ pc = "returned"
         => Len(linkCh) = 1 /\ linkCh[1].Error # "" /\ linkCh[1].URL = Empty
    /\ pc = "serve"
         => Len(linkCh) = 1 /\ linkCh[1].Error = "" /\ linkCh[1].URL # Empty
    /\ pc = "exited" => \A i \in DOMAIN linkCh : linkCh[i].Error = ""

C5_Witness ==
    /\ pc = "exited"
    /\ fatal = "Cannot serve HTTP"
    /\ Len(linkCh) = 1

(***************************************************************************)
(* C6: the address result is sent only after the listener was made, the    *)
(* serve loop begins only after the consumer has taken that result, and no *)
(* request is handled while the result is not yet emitted.                 *)
(***************************************************************************)
C6_ResultBeforeServing ==
    /\ AddressResults(Emitted) # {}
         => listener.state = "open" /\ "NewListener" \in Range(calls)
    /\ pc = "serve" => AddressResults(linkCh) # {}
    /\ resp # NoResp => AddressResults(linkCh) # {}

C6_Witness ==
    /\ pc = "serve"
    /\ resp.forwarded
    /\ AddressResults(linkCh) = { 1 }

(***************************************************************************)
(* C7: when the control connect, the authentication or the listener        *)
(* creation fails, exactly one error result naming the failed step is      *)
(* sent and Onionize returns: the monitor and the serve loop never start   *)
(* and no later control operation is attempted.                            *)
(***************************************************************************)
SetupErrors ==
    { "Failed to connect to control socket", "Authentication failed",
      "Error occured while creating an onion service" }

\* the control operations made when the step an error names has failed
CallsUpTo(msg) ==
    CASE msg = "Failed to connect to control socket" -> << "DialURL" >>
      [] msg = "Authentication failed" -> << "DialURL", "Authenticate" >>
      [] msg = "Error occured while creating an onion service" ->
           << "DialURL", "Authenticate", "NewListener" >>

C7_TransportFailureStops ==
    \A i \in DOMAIN Emitted :
        Emitted[i].Error \in SetupErrors
            => /\ Len(Emitted) = 1
               /\ pc \in { "sendErr", "returned" }
               /\ calls = CallsUpTo(Emitted[i].Error)
               /\ monitor = "off"
               /\ listener.state = "none"
               /\ resp = NoResp
               /\ fatal = ""

C7_Witness ==
    /\ pc = "returned"
    /\ Len(linkCh) = 1
    /\ linkCh[1].Error = "Error occured while creating an onion service"

(***************************************************************************)
(* C8: when the content source cannot be resolved (the archive does not    *)
(* open, the path cannot be stat'ed), one error result is reported and     *)
(* Onionize returns without any control operation having been called.      *)
(***************************************************************************)
ResolutionErrors == { "Unable to open zip archive", "Unable to open path" }

C8_ResolutionFailureBeforeTransport ==
    \A i \in DOMAIN Emitted :
        Emitted[i].Error \in ResolutionErrors
            => /\ Len(Emitted) = 1
               /\ pc \in { "sendErr", "returned" }
               /\ calls = << >>
               /\ conn = "none"
               /\ listener.state = "none"
               /\ monitor = "off"

C8_Witness ==
    /\ pc = "returned"
    /\ p.Zip
    /\ Len(linkCh) = 1
    /\ linkCh[1].Error = "Unable to open zip archive"

(***************************************************************************)
(* C9: the key material handed to the listener request is a function of    *)
(* the passphrase alone (and of the fixed label), so two invocations with  *)
(* the same passphrase supply the same key and get the same service host,  *)
(* whatever the other parameters and the slug are.                         *)
(***************************************************************************)
C9_KeyDependsOnPassphraseOnly ==
    (listener.state # "none" /\ p.Passphrase # Empty)
        => /\ listener.cfg.PrivateKey = DerivedKey(p.Passphrase, "onionize-keygen")
           /\ TrimSuffix(listener.addr, PortSuffix) = OnionOf(listener.cfg.PrivateKey)
           /\ \A i \in AddressResults(Emitted) :
                HasPrefix(Emitted[i].URL,
                          HTTPPrefix \o OnionOf(DerivedKey(p.Passphrase, "onionize-keygen"))
                              \o <<"/">>)

C9_Witness ==
    /\ p.Passphrase # Empty
    /\ slug # Empty
    /\ listener.state = "open"
    /\ AddressResults(linkCh) # {}

(***************************************************************************)
(* C10: when the path is a regular file (not in archive mode), the content *)
(* source shows exactly one entry, the file's base name; any other name,   *)
(* a sibling file of the same directory included, is not found: whenever   *)
(* no request is in progress no path a request can ask for finds another   *)
(* file, and a request in progress is served no other file.                *)
(***************************************************************************)
Basename(path) == Split(Resolve(path)).file

C10_SingleFileOnly ==
    (~ p.Zip /\ Stat(p.Path) = "file" /\ fs # NoFS)
        => /\ Exposed(fs) = { Basename(p.Path) }
           /\ resp = NoResp
                => \A t \in Tails :
                     Lookup(fs, t) = "file"
                         => Clean(<<"/">> \o t) = <<"/">> \o Basename(p.Path)
           /\ resp.served = "file" => Clean(<<"/">> \o resp.fwdPath) = <<"/">> \o Basename(p.Path)

C10_Witness ==
    /\ ~ p.Zip
    /\ p.Path = <<"a">>
    /\ <<"/", "d", "/", "a", "a">> \in WorldFiles
    /\ resp.forwarded
    /\ resp.fwdPath = <<"/", "a", "a">>
    /\ resp.served = "notfound"

(***************************************************************************)
(* C11: the address of a successful result is exactly "http://" + host +   *)
(* "/" + S + F: host is the listener's address without its port suffix, S  *)
(* is slug + "/" in slug mode and empty otherwise, F is the escaped base   *)
(* name (a space as %20, never as +) for a single file and empty for a     *)
(* directory or an archive.                                                *)
(***************************************************************************)
\* the name with every byte outside the unreserved set percent-encoded
PercentEncoded(name) ==
    LET RECURSIVE Go(_)
        Go(i) == IF i > Len(name) THEN Empty
                 ELSE (IF name[i] = " " THEN <<"%", "2", "0">> ELSE <<name[i]>>)
                      \o Go(i + 1)
    IN  Go(1)

\* the listener's address up to its last ":"
HostOf(addr) == Take(addr, LastIndexByte(addr, ":"))

SingleFile == ~ p.Zip /\ Stat(p.Path) = "file"

C11_AddressFormat ==
    \A i \in AddressResults(Emitted) :
        /\ Emitted[i].URL =
             <<"h", "t", "t", "p", ":", "/", "/">> \o HostOf(listener.addr) \o <<"/">>
             \o (IF p.Slug THEN slug \o <<"/">> ELSE Empty)
             \o (IF SingleFile THEN PercentEncoded(Basename(p.Path)) ELSE Empty)
        /\ "+" \notin Range(Emitted[i].URL)
        /\ p.Slug => Len(slug) = slugLengthB32

C11_Witness ==
    /\ AddressResults(linkCh) = { 1 }
    /\ p.Slug
    /\ SingleFile
    /\ Basename(p.Path) = <<"a", " ", "b">>
    /\ linkCh[1].URL =
         HTTPPrefix \o <<"r", "1", "/">> \o slug \o <<"/", "a", "%", "2", "0", "b">>

(***************************************************************************)
(* C12: once acquired, the control connection and the listener are closed  *)
(* on every way out of the lifecycle, the fatal aborts of the monitor and  *)
(* of the serve loop included.                                             *)
(***************************************************************************)
C12_ResourcesReleased ==
    pc \in { "returned", "exited" }
        => /\ conn # "open"
           /\ listener.state # "open"

(***************************************************************************)
(* C13: the process is ended by the monitor (a control-channel error) only *)
(* after the result has been emitted and taken by its consumer.            *)
(***************************************************************************)
C13_AbortAfterResultConsumed ==
    fatal = "Lost connection to tor"
        => /\ pending = << >>
           /\ Len(linkCh) = 1

(***************************************************************************)
(* C14: once a read of the control connection has reported an error, the   *)
(* process eventually is terminated (the monitor goroutine being scheduled *)
(* fairly); the serve loop is left in no other way than by the process     *)
(* being terminated; a terminated process stays so, Onionize does not      *)
(* return from it and no request is handled in it.                         *)
(***************************************************************************)
C14_ControlErrorTerminates ==
    /\ (monitor = "error") ~> (pc = "exited" /\ fatal # "")
    /\ [][pc = "serve" /\ pc' # "serve" => pc' = "exited" /\ fatal' # ""]_vars
    /\ [][pc = "exited" => pc' = "exited" /\ resp' = NoResp]_vars
    /\ [](monitor \in { "error", "dead" } => pc # "returned")

C14_Witness ==
    /\ pc = "exited"
    /\ monitor = "dead"
    /\ fatal = "Lost connection to tor"
    /\ Len(linkCh) = 1

(***************************************************************************)
(* C15: the control operations happen in one order, each after the one     *)
(* before it succeeded: authenticate after a successful connect, the       *)
(* identity after a successful authenticate, the listener request after    *)
(* the identity is ready, NextEvent (read by the one monitor goroutine)    *)
(* after the listener was made; no step is skipped or taken twice.         *)
(***************************************************************************)
ControlOrder == << "DialURL", "Authenticate", "NewListener", "NextEvent" >>

Errors(rs) == { rs[i].Error : i \in DOMAIN rs }

\* the steps of the main flow in the order they may be taken
StepOrder ==
    << "slug", "source", "dial", "auth", "key", "listen", "go", "addr", "sendOk",
       "serve", "sendErr", "returned", "exited" >>

C15_ControlOrder ==
    /\ [](/\ calls = Take(ControlOrder, Len(calls))
          /\ Len(calls) >= 2 => conn # "none"
          /\ aocfg # NoConfig
               => /\ Len(calls) >= 2
                  /\ "Authentication failed" \notin Errors(Emitted)
          /\ Len(calls) >= 3
               => /\ aocfg # NoConfig
                  /\ Errors(Emitted) \cap { "Unable to create keystream",
                                            "Unable to generate onion key" } = {}
                  /\ p.Passphrase # Empty => aocfg.PrivateKey.derived
          /\ monitor # "off" => listener.state # "none" /\ Len(calls) >= 3
          /\ Len(calls) = 4 => monitor # "off")
    /\ [][pc' # pc => IndexIn(StepOrder, pc') > IndexIn(StepOrder, pc)]_vars
    /\ [][monitor' # monitor /\ monitor = "off" => pc = "go" /\ pc' = "addr"]_vars
    /\ [][monitor # "off" => monitor' # "off"]_vars

C15_Witness ==
    /\ calls = ControlOrder
    /\ pc = "serve"
    /\ monitor = "wait"
    /\ p.Passphrase # Empty

(***************************************************************************)
(* C16: the gate strips exactly one leading separator before it compares,  *)
(* so a request with two or more leading separators before the slug does   *)
(* not match: it is refused and not forwarded.                             *)
(***************************************************************************)
C16_OneSeparatorStripped ==
    (slug # Empty /\ GateRan /\ HasPrefix(resp.url, <<"/", "/">> \o slug))
        => /\ ~ resp.forwarded
           /\ resp.err = "Wrong slug"

(***************************************************************************)
(* C17: the listener request always asks to await the upload and for port  *)
(* 80; it carries key material exactly when the passphrase is not empty;   *)
(* and it asks tor to discard the private key whenever no key derived      *)
(* from a passphrase is supplied.                                          *)
(***************************************************************************)
\* NewListener has been called with aocfg
ListenerRequested == "NewListener" \in Range(calls)

C17_ListenerRequest ==
    /\ ListenerRequested
         => /\ aocfg.AwaitForUpload
            /\ aocfg.PrivateKey # NoKey <=> p.Passphrase # Empty
            /\ aocfg.PrivateKey # NoKey => aocfg.PrivateKey.derived
            /\ aocfg.PrivateKey = NoKey => aocfg.DiscardPK
    /\ listener.state # "none"
         => /\ ListenerRequested
            /\ listener.cfg = aocfg
            /\ listener.port = 80

C17_Witness ==
    /\ listener.state = "open"
    /\ p.Passphrase # Empty
    /\ listener.cfg.PrivateKey.derived
    /\ listener.cfg.DiscardPK

(***************************************************************************)
(* C18: the slug is set at most once, at the start of the invocation and   *)
(* before any request is handled, and never changes afterwards; in slug    *)
(* mode it is exactly 16 characters of the base32 alphabet (the 11 bytes   *)
(* drawn encode to at least 16 characters, so the cut never falls short),  *)
(* and it is empty when slug mode is off.                                  *)
(***************************************************************************)
\* the alphabet of lower-case base32
SlugChars == Range(Lower) \cup { "2", "3", "4", "5", "6", "7" }

C18_SlugOnceAndFixed ==
    /\ [](/\ ~ p.Slug => slug = Empty
          /\ (p.Slug /\ pc # "slug" /\ "Unable to generate slug" \notin Errors(Emitted))
               => /\ Len(slug) = 16
                  /\ \A i \in DOMAIN slug : slug[i] \in SlugChars
          /\ resp # NoResp => (p.Slug <=> Len(slug) = 16)
          /\ slug # Empty => Len(slug) = 16)
    /\ [][slug' # slug => pc = "slug" /\ slug = Empty /\ resp = NoResp /\ linkCh = << >>]_vars
    /\ [][pc # "slug" => slug' = slug]_vars

C18_Witness ==
    /\ p.Slug
    /\ Len(slug) = 16
    /\ slug[16] = "7"
    /\ resp.forwarded

(***************************************************************************)
(* C19: the handler does exactly one thing with a request: it resets or    *)
(* silently drops the connection, or redirects, or forwards to the content *)
(* handler; a request answered with the redirect to "/" + slug + "/" is    *)
(* not also passed to the content handler.                                 *)
(***************************************************************************)
\* 1 for TRUE, 0 for FALSE
Count(b) == IF b THEN 1 ELSE 0

C19_ExactlyOneOutcome ==
    GateRan
        => /\ Count(resp.err # "") + Count(resp.redirected) + Count(resp.forwarded) = 1
           /\ resp.redirected => resp.served = "none"

(***************************************************************************)
(* C20: what the comparison of a candidate prefix with the slug costs does *)
(* not depend on where the first byte differs: a candidate of the slug's   *)
(* length that differs at position 0 and one that differs only at the last *)
(* position take the same number of rounds, and so does every request the  *)
(* gate compares.                                                          *)
(***************************************************************************)
\* the slug with the byte at position i (1-based) changed
DiffersAt(i) == [ slug EXCEPT ![i] = OtherChar(slug[i]) ]

C20_CompareCostIndependent ==
    /\ slug # Empty
         => /\ ConstantTimeCompare(slug, DiffersAt(1)).steps
                 = ConstantTimeCompare(slug, DiffersAt(Len(slug))).steps
            /\ ConstantTimeCompare(slug, DiffersAt(1)).result = 0
            /\ ConstantTimeCompare(slug, DiffersAt(Len(slug))).result = 0
    /\ (GateRan /\ resp.compared) => resp.steps = Len(slug)

C20_Witness ==
    /\ GateRan
    /\ resp.compared
    /\ resp.err = "Wrong slug"
    /\ resp.url = <<"/">> \o DiffersAt(1)
    /\ resp.steps = 16

====
